---------------------------- MODULE Spec2Model ----------------------------
(***************************************************************************)
(* The handle registry of go-cue (src/go-cue/go_cue.go, the counter based  *)
(* CueContext of lines 127-257) and the exported cue_value_* operations,   *)
(* called concurrently by several caller threads.                          *)
(*                                                                         *)
(* A registry access is two steps: taking the lock together with the map   *)
(* access it guards (no other thread can touch the registry in between),   *)
(* and the Unlock with the return.  Each call into the CUE engine          *)
(* (CompileString, Unify, Validate, MarshalJSON, yaml.Encode) is a step of *)
(* its own, as is the call of an exported operation and its return.        *)
(*                                                                         *)
(* Two caller threads run.  Thread 1 calls every operation.  Thread 2 is   *)
(* the thread that interferes: it calls cue_value_new and cue_value_free,  *)
(* the operations that change the registry.  (The other operations change  *)
(* the registry only through new_value, as cue_value_new does, so a second *)
(* thread calling them adds no interference that thread 2 does not give,   *)
(* and the code treats every thread alike.)                                *)
(*                                                                         *)
(* The CUE engine is an external library.  Its values are abstracted to    *)
(* the constraint they put on one integer field `age`: a value is the set  *)
(* of integers of AgeDom it still admits.  One admitted integer is a       *)
(* concrete value, several are an open (incomplete) value, none is bottom, *)
(* the value that carries an error.                                        *)
(*                                                                         *)
(* Three specifications: Spec, the counter based registry; FairSpec, Spec  *)
(* under fair scheduling, for what has to happen eventually; AddrSpec, the *)
(* registry of lines 1-125 whose handles are addresses of local variables. *)
(***************************************************************************)
EXTENDS Integers, FiniteSets, Sequences, Bags, TLC

\* ------------------------------------------------------------------ bounds
\* Cap of the counter nextID: no insert is started that could push it higher.
MaxID == 4

\* The caller threads, and those of them that call every operation.
Threads == {1, 2}
AnyOp == {1}
\* What a caller may pass as a handle: 0 and any integer the counter can reach,
\* issued or not.  (1, the counter's first value, is never handed out and is
\* to the registry what 0 is.)
Handles == {0} \cup 2..MaxID

\* ------------------------------------------------------------- the engine
AgeDom == {30, 31}
Bottom == {}
\* A *cue.Value: nil, or a reference to a value.
Nil == <<>>
Ref(v) == <<v>>
Deref(p) == p[1]
\* What an exported operation returns: a *C.char, which is NULL or the C
\* string C.CString allocates; a C.CueValueAddr, which is a handle; or
\* nothing (not yet, or a void function).  All are records of one shape.
NULL == [kind |-> "null", h |-> 0, s |-> ""]
CString(s) == [kind |-> "text", h |-> 0, s |-> s]
CueValueAddr(a) == [kind |-> "handle", h |-> a, s |-> ""]
NoRet == [kind |-> "none", h |-> 0, s |-> ""]

\* The source texts callers compile; the last one is malformed.
Texts == {"age: >=0", "age: 30", "age: "}

\* cueCtx.ctx.CompileString(s): always yields a value; malformed text yields
\* a value that carries the error.
CompileString(s) ==
    CASE s = "age: >=0" -> {a \in AgeDom : a >= 0}
      [] s = "age: 30"  -> {30}
      [] OTHER          -> Bottom

\* v1.Unify(*v2): the greatest lower bound.
Unify(x, y) == x \cap y

\* v.Err() != nil
HasErr(v) == v = Bottom
IsConcrete(v) == Cardinality(v) = 1

\* Mutant of Validate: validation without the concreteness option, which
\* accepts a value that is still open.
ValidateNoConcrete(v) == IF HasErr(v) THEN "conflicting values" ELSE ""

\* v.Validate(cue.Concrete(true)): the error text, "" for no error.
Validate(v) ==
    IF HasErr(v) THEN "conflicting values"
    ELSE IF ~IsConcrete(v) THEN "incomplete value"
    ELSE ""

IntText(n) ==
    CASE n = 30 -> "30"
      [] n = 31 -> "31"

TheAge(v) == CHOOSE a \in v : TRUE

\* v.MarshalJSON(): (data, err).  On an error the data is nil.
MarshalJSON(v) ==
    IF IsConcrete(v)
    THEN [data |-> "{\"age\":" \o IntText(TheAge(v)) \o "}", err |-> FALSE]
    ELSE [data |-> "", err |-> TRUE]

\* cueyaml.Encode(*v): (data, err).
YamlEncode(v) ==
    IF IsConcrete(v)
    THEN [data |-> "age: " \o IntText(TheAge(v)) \o "\n", err |-> FALSE]
    ELSE [data |-> "", err |-> TRUE]

\* ------------------------------------------------------------------ state
VARIABLES
    values,   \* cueCtx.values: handle -> cue.Value
    nextID,   \* cueCtx.nextID
    mu,       \* cueCtx.mu: 0 when free, else the thread that holds it
    pc,       \* where each thread is
    call,     \* the exported operation a thread is in, with its arguments
    v1, v2,   \* the locals v1 (v of validate, to_json, to_yaml) and v2
    new_v,    \* the value handed to new_value (v of cue_value_new, new_v of unify)
    addr,     \* new_value's local addr
    ret,      \* what the operation returned
    issued,   \* history: the handles new_value has handed out
    returned, \* history: the handles that cue_value_new and cue_value_unify have
              \* returned from new_value, as a bag
    freed,    \* history: the issued handles whose cue_value_free has returned
    stale     \* history: which arguments (1, 2) of the thread's operation were
              \* handles in `freed` when the operation was called

vars == <<values, nextID, mu, pc, call, v1, v2, new_v, addr, ret,
          issued, returned, freed, stale>>

\* The history variables.
hist == <<issued, returned, freed, stale>>

Idle == [op |-> "idle", addr1 |-> 0, addr2 |-> 0, input |-> ""]

\* The keys of the map.
Live == DOMAIN values

\* ------------------------------------------------------- the registry maps
\* Mutant of MapStore: the store builds a new map that holds the new entry only.
MapStoreFresh(m, k, v) == (k :> v)

\* ctx.values[addr] = v
MapStore(m, k, v) == (k :> v) @@ m
\* Mutants of MapDelete: a free that forgets the delete; a delete that empties
\* the map; a delete that evicts the oldest entry when the key is absent.
MapDeleteNoop(m, k) == m
MapDeleteAll(m, k) == <<>>
MapDeleteOrOldest(m, k) ==
    LET gone == IF k \in DOMAIN m \/ DOMAIN m = {} THEN k
                ELSE CHOOSE h \in DOMAIN m : \A g \in DOMAIN m : h <= g
    IN  [h \in (DOMAIN m) \ {gone} |-> m[h]]

\* Mutant of MapDelete: a delete that also drops every entry made after the
\* one it removes.
MapDeleteCascade(m, k) == [h \in {g \in DOMAIN m : g < k} |-> m[h]]

\* delete(ctx.values, addr)
MapDelete(m, k) == [h \in (DOMAIN m) \ {k} |-> m[h]]
\* Mutant of MapLookup: the read without `ok`, which gives the zero Value for
\* a missing key.
MapLookupZero(m, k) == IF k \in DOMAIN m THEN Ref(m[k]) ELSE Ref(Bottom)

\* v, ok := ctx.values[addr]
MapLookup(m, k) == IF k \in DOMAIN m THEN Ref(m[k]) ELSE Nil

Init ==
    /\ values = <<>>
    /\ nextID = 1
    /\ mu = 0
    /\ pc = [t \in Threads |-> "idle"]
    /\ call = [t \in Threads |-> Idle]
    /\ v1 = [t \in Threads |-> Nil]
    /\ v2 = [t \in Threads |-> Nil]
    /\ new_v = [t \in Threads |-> Bottom]
    /\ addr = [t \in Threads |-> 0]
    /\ ret = [t \in Threads |-> NoRet]
    /\ issued = {}
    /\ returned = EmptyBag
    /\ freed = {}
    /\ stale = [t \in Threads |-> {}]


\* ------------------------------------------------- the steps of a thread
\* The inserts that are started and have not stored yet: each may still raise
\* the counter by one.
PendingInserts ==
    Cardinality({t \in Threads :
        /\ call[t].op \in {"new", "unify"}
        /\ pc[t] \notin {"nv_unlock", "done"}})

\* The model stops starting inserts when the counter could pass MaxID.
RoomForInsert == nextID + PendingInserts < MaxID

\* A caller starts an operation: the history notes whether it starts on a
\* handle that a cue_value_free has already removed.
Start(t, c, first) ==
    /\ pc[t] = "idle"
    /\ call' = [call EXCEPT ![t] = c]
    /\ stale' = [stale EXCEPT ![t] =
                    {i \in {1, 2} : (IF i = 1 THEN c.addr1 ELSE c.addr2) \in freed}]
    /\ pc' = [pc EXCEPT ![t] = first]
    /\ UNCHANGED <<values, nextID, mu, v1, v2, new_v, addr, ret, issued, returned, freed>>

\* The operation has returned to the caller, who goes on to its next call.
Return(t) ==
    /\ pc[t] = "done"
    /\ pc' = [pc EXCEPT ![t] = "idle"]
    /\ call' = [call EXCEPT ![t] = Idle]
    /\ v1' = [v1 EXCEPT ![t] = Nil]
    /\ v2' = [v2 EXCEPT ![t] = Nil]
    /\ new_v' = [new_v EXCEPT ![t] = Bottom]
    /\ addr' = [addr EXCEPT ![t] = 0]
    /\ ret' = [ret EXCEPT ![t] = NoRet]
    /\ stale' = [stale EXCEPT ![t] = {}]
    /\ UNCHANGED <<values, nextID, mu, issued, returned, freed>>

\* ---- the registry lock (ctx.mu, a sync.Mutex)
\* Mutant of Lock: a lock that lets a thread in while another holds it.
LockNoWait(t) == mu' = t

\* ctx.mu.Lock(): blocks until the mutex is free, then holds it.
Lock(t) == mu = 0 /\ mu' = t
\* Mutant of Unlock: the Unlock forgotten.
UnlockForgotten(t) == mu' = mu

\* ctx.mu.Unlock()
Unlock(t) == mu' = 0

\* ---- new_value (lines 153-160)
\* Mutants of NextHandle: the increment forgotten; a counter that wraps round.
NextHandleStuck(n) == n
NextHandleWrap(n) == IF n >= 3 THEN 2 ELSE n + 1

\* ctx.nextID++ ; addr := ctx.nextID
NextHandle(n) == n + 1

\* Mutant of NvStore: the handle taken before the increment
\* (id := nextID ; nextID++), so that the first key is the counter's first value.
NvStorePostIncrement(t) ==
    /\ pc[t] = "nv_lock"
    /\ Lock(t)
    /\ nextID' = NextHandle(nextID)
    /\ addr' = [addr EXCEPT ![t] = nextID]
    /\ values' = MapStore(values, nextID, new_v[t])
    /\ issued' = issued \cup {nextID}
    /\ pc' = [pc EXCEPT ![t] = "nv_unlock"]
    /\ UNCHANGED <<call, v1, v2, new_v, ret, returned, freed, stale>>

\* ctx.mu.Lock() ; ctx.nextID++ ; addr := ctx.nextID ; ctx.values[addr] = v
NvStore(t) ==
    /\ pc[t] = "nv_lock"
    /\ Lock(t)
    /\ nextID' = NextHandle(nextID)
    /\ addr' = [addr EXCEPT ![t] = nextID']
    /\ values' = MapStore(values, nextID', new_v[t])
    /\ issued' = issued \cup {nextID'}
    /\ pc' = [pc EXCEPT ![t] = "nv_unlock"]
    /\ UNCHANGED <<call, v1, v2, new_v, ret, returned, freed, stale>>

\* ctx.mu.Unlock() ; return C.CueValueAddr(addr), which cue_value_new and
\* cue_value_unify return in turn.
NvUnlock(t) ==
    /\ pc[t] = "nv_unlock"
    /\ Unlock(t)
    /\ pc' = [pc EXCEPT ![t] = "done"]
    /\ ret' = [ret EXCEPT ![t] = CueValueAddr(addr[t])]
    /\ returned' = returned (+) SetToBag({addr[t]})
    /\ UNCHANGED <<values, nextID, call, v1, v2, new_v, addr, issued, freed, stale>>

\* ---- get_value (lines 162-170), called for addr1 (i = 1) or addr2 (i = 2)
GetPc(i, stage) ==
    CASE i = 1 /\ stage = "lock"   -> "g1_lock"
      [] i = 1 /\ stage = "unlock" -> "g1_unlock"
      [] i = 2 /\ stage = "lock"   -> "g2_lock"
      [] i = 2 /\ stage = "unlock" -> "g2_unlock"

ArgOf(t, i) == IF i = 1 THEN call[t].addr1 ELSE call[t].addr2
LocalOf(t, i) == IF i = 1 THEN v1[t] ELSE v2[t]

\* Mutant of GvRead: a lookup that takes the entry out of the map.
GvReadTake(t, i) ==
    /\ pc[t] = GetPc(i, "lock")
    /\ Lock(t)
    /\ IF i = 1
       THEN v1' = [v1 EXCEPT ![t] = MapLookup(values, ArgOf(t, 1))] /\ UNCHANGED v2
       ELSE v2' = [v2 EXCEPT ![t] = MapLookup(values, ArgOf(t, 2))] /\ UNCHANGED v1
    /\ values' = MapDelete(values, ArgOf(t, i))
    /\ pc' = [pc EXCEPT ![t] = GetPc(i, "unlock")]
    /\ UNCHANGED <<nextID, call, new_v, addr, ret, hist>>

\* ctx.mu.Lock() ; v, ok := ctx.values[uintptr(addr)]
GvRead(t, i) ==
    /\ pc[t] = GetPc(i, "lock")
    /\ Lock(t)
    /\ IF i = 1
       THEN v1' = [v1 EXCEPT ![t] = MapLookup(values, ArgOf(t, 1))] /\ UNCHANGED v2
       ELSE v2' = [v2 EXCEPT ![t] = MapLookup(values, ArgOf(t, 2))] /\ UNCHANGED v1
    /\ pc' = [pc EXCEPT ![t] = GetPc(i, "unlock")]
    /\ UNCHANGED <<values, nextID, call, new_v, addr, ret, hist>>

\* Mutant of UnknownHandleResult: a unify that answers an unknown handle with
\* 0, which is never a handle.
UnknownHandleResultZero(o, a) ==
    CASE o = "validate" -> CString("unknown handle")
      [] o = "to_json"  -> NULL
      [] o = "to_yaml"  -> NULL
      [] o = "unify"    -> CueValueAddr(0)

\* What each operation returns when get_value gave nil (lines 201-203,
\* 215-217, 230-232, 245-247, 249-251).
UnknownHandleResult(o, a) ==
    CASE o = "validate" -> CString("unknown handle")
      [] o = "to_json"  -> NULL
      [] o = "to_yaml"  -> NULL
      [] o = "unify"    -> CueValueAddr(a)

\* Where each operation goes on when get_value gave a value.
AfterGet(o, i) ==
    CASE o = "validate"        -> "val_validate"
      [] o = "to_json"         -> "json_marshal"
      [] o = "to_yaml"         -> "yaml_encode"
      [] o = "unify" /\ i = 1  -> "g2_lock"
      [] o = "unify" /\ i = 2  -> "uni_unify"

\* Mutant of GvUnlock: a get_value that returns nil for a missing key before
\* it has unlocked.
GvUnlockLeakOnNil(t, i) ==
    /\ pc[t] = GetPc(i, "unlock")
    /\ IF LocalOf(t, i) = Nil
       THEN /\ pc' = [pc EXCEPT ![t] = "done"]
            /\ ret' = [ret EXCEPT ![t] = UnknownHandleResult(call[t].op, ArgOf(t, i))]
            /\ UNCHANGED mu
       ELSE /\ pc' = [pc EXCEPT ![t] = AfterGet(call[t].op, i)]
            /\ Unlock(t)
            /\ UNCHANGED ret
    /\ UNCHANGED <<values, nextID, call, v1, v2, new_v, addr, hist>>

\* ctx.mu.Unlock() ; if !ok { return nil } ; return &v, and the caller's
\* `if v == nil { return ... }`.
GvUnlock(t, i) ==
    /\ pc[t] = GetPc(i, "unlock")
    /\ Unlock(t)
    /\ IF LocalOf(t, i) = Nil
       THEN /\ pc' = [pc EXCEPT ![t] = "done"]
            /\ ret' = [ret EXCEPT ![t] = UnknownHandleResult(call[t].op, ArgOf(t, i))]
       ELSE /\ pc' = [pc EXCEPT ![t] = AfterGet(call[t].op, i)]
            /\ UNCHANGED ret
    /\ UNCHANGED <<values, nextID, call, v1, v2, new_v, addr, hist>>

\* ---- remove_value (lines 172-176)
\* ctx.mu.Lock() ; delete(ctx.values, uintptr(addr))
RmDelete(t) ==
    /\ pc[t] = "rm_lock"
    /\ Lock(t)
    /\ values' = MapDelete(values, call[t].addr1)
    /\ pc' = [pc EXCEPT ![t] = "rm_unlock"]
    /\ UNCHANGED <<nextID, call, v1, v2, new_v, addr, ret, hist>>

\* ctx.mu.Unlock(), and cue_value_free returns.
RmUnlock(t) ==
    /\ pc[t] = "rm_unlock"
    /\ Unlock(t)
    /\ freed' = IF call[t].addr1 \in issued THEN freed \cup {call[t].addr1} ELSE freed
    /\ pc' = [pc EXCEPT ![t] = "done"]
    /\ UNCHANGED <<values, nextID, call, v1, v2, new_v, addr, ret, issued, returned, stale>>

\* ---- cue_value_new (lines 185-189)
CallNew(t) ==
    \E s \in Texts :
        /\ RoomForInsert
        /\ Start(t, [Idle EXCEPT !.op = "new", !.input = s], "new_compile")

\* Mutant of NewCompile: a cue_value_new that gives up on text that does not
\* compile and returns 0 without an insert.
NewCompileFails(t) ==
    /\ pc[t] = "new_compile"
    /\ new_v' = [new_v EXCEPT ![t] = CompileString(call[t].input)]
    /\ IF HasErr(CompileString(call[t].input))
       THEN pc' = [pc EXCEPT ![t] = "done"] /\ ret' = [ret EXCEPT ![t] = CueValueAddr(0)]
       ELSE pc' = [pc EXCEPT ![t] = "nv_lock"] /\ UNCHANGED ret
    /\ UNCHANGED <<values, nextID, mu, call, v1, v2, addr, hist>>

\* v := cueCtx.ctx.CompileString(s)
NewCompile(t) ==
    /\ pc[t] = "new_compile"
    /\ new_v' = [new_v EXCEPT ![t] = CompileString(call[t].input)]
    /\ pc' = [pc EXCEPT ![t] = "nv_lock"]
    /\ UNCHANGED <<values, nextID, mu, call, v1, v2, addr, ret, hist>>

\* ---- cue_value_free (lines 192-194)
CallFree(t) ==
    \E h \in Handles :
        Start(t, [Idle EXCEPT !.op = "free", !.addr1 = h], "rm_lock")

\* ---- cue_value_validate (lines 199-208)
CallValidate(t) ==
    /\ t \in AnyOp
    /\ \E h \in Handles :
        Start(t, [Idle EXCEPT !.op = "validate", !.addr1 = h], "g1_lock")

\* Mutant of ValValidate: a validate that does not keep the copy get_value
\* made but goes back to the map, and reads the zero Value when the key is
\* gone by then.
ValValidateReread(t) ==
    /\ pc[t] = "val_validate"
    /\ pc' = [pc EXCEPT ![t] = "done"]
    /\ ret' = [ret EXCEPT ![t] =
                  CString(Validate(IF call[t].addr1 \in DOMAIN values
                                   THEN values[call[t].addr1] ELSE Bottom))]
    /\ UNCHANGED <<values, nextID, mu, call, v1, v2, new_v, addr, hist>>

\* v.Validate(cue.Concrete(true)) and the C.CString of its error, or of "".
ValValidate(t) ==
    /\ pc[t] = "val_validate"
    /\ pc' = [pc EXCEPT ![t] = "done"]
    /\ ret' = [ret EXCEPT ![t] = CString(Validate(Deref(v1[t])))]
    /\ UNCHANGED <<values, nextID, mu, call, v1, v2, new_v, addr, hist>>

\* ---- cue_value_to_json (lines 213-223), cue_value_to_yaml (lines 228-238)
\* Mutant of EncodeResult: the error of the encoder ignored, so that whatever
\* the encoder left in data is returned.
EncodeResultIgnoreErr(r) == CString(r.data)

\* data, err := ... ; if err != nil { return nil } ; return C.CString(string(data))
EncodeResult(r) == IF r.err THEN NULL ELSE CString(r.data)

CallToJson(t) ==
    /\ t \in AnyOp
    /\ \E h \in Handles :
        Start(t, [Idle EXCEPT !.op = "to_json", !.addr1 = h], "g1_lock")

JsonMarshal(t) ==
    /\ pc[t] = "json_marshal"
    /\ pc' = [pc EXCEPT ![t] = "done"]
    /\ ret' = [ret EXCEPT ![t] = EncodeResult(MarshalJSON(Deref(v1[t])))]
    /\ UNCHANGED <<values, nextID, mu, call, v1, v2, new_v, addr, hist>>

CallToYaml(t) ==
    /\ t \in AnyOp
    /\ \E h \in Handles :
        Start(t, [Idle EXCEPT !.op = "to_yaml", !.addr1 = h], "g1_lock")

YamlEncodeStep(t) ==
    /\ pc[t] = "yaml_encode"
    /\ pc' = [pc EXCEPT ![t] = "done"]
    /\ ret' = [ret EXCEPT ![t] = EncodeResult(YamlEncode(Deref(v1[t])))]
    /\ UNCHANGED <<values, nextID, mu, call, v1, v2, new_v, addr, hist>>

\* ---- cue_value_unify (lines 243-254)
CallUnify(t) ==
    /\ t \in AnyOp
    /\ \E a, b \in Handles :
        /\ RoomForInsert
        /\ Start(t, [Idle EXCEPT !.op = "unify", !.addr1 = a, !.addr2 = b], "g1_lock")

\* new_v := v1.Unify(*v2)
UniUnify(t) ==
    /\ pc[t] = "uni_unify"
    /\ new_v' = [new_v EXCEPT ![t] = Unify(Deref(v1[t]), Deref(v2[t]))]
    /\ pc' = [pc EXCEPT ![t] = "nv_lock"]
    /\ UNCHANGED <<values, nextID, mu, call, v1, v2, addr, ret, hist>>

\* ------------------------------------------------------- the specification
Next ==
    \E t \in Threads :
        \/ CallNew(t)
        \/ NewCompile(t)
        \/ CallFree(t)
        \/ CallValidate(t)
        \/ ValValidate(t)
        \/ CallToJson(t)
        \/ JsonMarshal(t)
        \/ CallToYaml(t)
        \/ YamlEncodeStep(t)
        \/ CallUnify(t)
        \/ UniUnify(t)
        \/ NvStore(t)
        \/ NvUnlock(t)
        \/ \E i \in {1, 2} : GvRead(t, i)
        \/ \E i \in {1, 2} : GvUnlock(t, i)
        \/ RmDelete(t)
        \/ RmUnlock(t)
        \/ Return(t)

Spec == Init /\ [][Next]_vars

\* ------------------------------------- the address-as-handle registry variant
\* Lines 1-125 of go_cue.go: the registry is the package-level map `values`
\* under the package-level mutex `mu`, there is no counter (nextID stays as it
\* is), and the handle of a new value is the address of the local variable
\* that holds it: `v` in cue_value_new, `new_v` in cue_value_unify_accept.
\* cue_value_free, cue_value_validate, cue_value_to_json, cue_value_to_yaml
\* and get_value read as in the counter variant, and their steps are shared.
\*
\* The map keeps a copy of the value and the handle is an integer, so nothing
\* refers to the local once the function has returned: where the Go runtime
\* puts the next local (the same stack slot again, or heap memory it has
\* reclaimed) is its choice.  The one thing the language guarantees is that
\* two variables that exist at the same time have different addresses.

\* The addresses the local of an insert can have, as integers within Handles.
Addrs == {2, 3}

\* Thread u is inside a call that owns such a local.
LocalAlive(u) == call[u].op \in {"new", "unify"}

\* The addresses the runtime can give the local of a call that thread t
\* starts: any that is not the address of a local existing now.
AddrOfLocal(t) ==
    {a \in Addrs : \A u \in Threads \ {t} : ~(LocalAlive(u) /\ addr[u] = a)}

\* A call that owns a local starts: the frame, and with it the local's
\* address, exists from here to the return.
AddrStart(t, c, first, a) ==
    /\ pc[t] = "idle"
    /\ call' = [call EXCEPT ![t] = c]
    /\ addr' = [addr EXCEPT ![t] = a]
    /\ stale' = [stale EXCEPT ![t] =
                    {i \in {1, 2} : (IF i = 1 THEN c.addr1 ELSE c.addr2) \in freed}]
    /\ pc' = [pc EXCEPT ![t] = first]
    /\ UNCHANGED <<values, nextID, mu, v1, v2, new_v, ret, issued, returned, freed>>

\* cue_value_new (lines 28-35)
AddrCallNew(t) ==
    \E s \in Texts : \E a \in AddrOfLocal(t) :
        AddrStart(t, [Idle EXCEPT !.op = "new", !.input = s], "new_compile", a)

\* cue_value_unify_accept (lines 91-106)
AddrCallUnifyAccept(t) ==
    /\ t \in AnyOp
    /\ \E a, b \in Handles : \E l \in AddrOfLocal(t) :
        AddrStart(t, [Idle EXCEPT !.op = "unify", !.addr1 = a, !.addr2 = b],
                  "g1_lock", l)

\* addr := C.CueValue(uintptr(unsafe.Pointer(&v))) and set_value's
\* mu.Lock() ; values[uintptr(addr)] = v
SetValueStore(t) ==
    /\ pc[t] = "nv_lock"
    /\ Lock(t)
    /\ values' = MapStore(values, addr[t], new_v[t])
    /\ issued' = issued \cup {addr[t]}
    /\ pc' = [pc EXCEPT ![t] = "nv_unlock"]
    /\ UNCHANGED <<nextID, call, v1, v2, new_v, addr, ret, returned, freed, stale>>

\* set_value's mu.Unlock(), and the caller's `return addr`.
SetValueUnlock(t) ==
    /\ pc[t] = "nv_unlock"
    /\ Unlock(t)
    /\ pc' = [pc EXCEPT ![t] = "done"]
    /\ ret' = [ret EXCEPT ![t] = CueValueAddr(addr[t])]
    /\ UNCHANGED <<values, nextID, call, v1, v2, new_v, addr, hist>>

AddrNext ==
    \E t \in Threads :
        \/ AddrCallNew(t)
        \/ NewCompile(t)
        \/ CallFree(t)
        \/ CallValidate(t)
        \/ ValValidate(t)
        \/ CallToJson(t)
        \/ JsonMarshal(t)
        \/ CallToYaml(t)
        \/ YamlEncodeStep(t)
        \/ AddrCallUnifyAccept(t)
        \/ UniUnify(t)
        \/ SetValueStore(t)
        \/ SetValueUnlock(t)
        \/ \E i \in {1, 2} : GvRead(t, i)
        \/ \E i \in {1, 2} : GvUnlock(t, i)
        \/ RmDelete(t)
        \/ RmUnlock(t)
        \/ Return(t)

AddrSpec == Init /\ [][AddrNext]_vars

\* ------------------------------------------------------------- scheduling
\* The steps of thread t inside an operation it has been called with: all of
\* its steps but the calls, which are the caller's choice.
Step(t) ==
    \/ NewCompile(t)
    \/ ValValidate(t)
    \/ JsonMarshal(t)
    \/ YamlEncodeStep(t)
    \/ UniUnify(t)
    \/ NvUnlock(t)
    \/ \E i \in {1, 2} : GvUnlock(t, i)
    \/ RmUnlock(t)
    \/ Return(t)

\* The steps of thread t that take the lock.
LockStep(t) ==
    \/ NvStore(t)
    \/ \E i \in {1, 2} : GvRead(t, i)
    \/ RmDelete(t)

\* A thread that can run does run (the Go scheduler), and a thread that
\* waits for the mutex gets it: a sync.Mutex hands the lock to a waiter that
\* has waited long (starvation mode), so a waiter cannot be passed over for
\* ever by threads that keep taking the lock.
\* (Each of these steps moves the thread, so fairness is stated on pc.)
Fairness ==
    \A t \in Threads : WF_pc(Step(t)) /\ SF_pc(LockStep(t))

FairSpec == Spec /\ Fairness

\* ------------------------------------------------------------ the claims
\* What the formulas below share.
Done(t, o) == pc[t] = "done" /\ call[t].op = o

\* cue_value_unify left through one of its `return addr1` / `return addr2`:
\* a lookup gave nil, the call handed back that argument and put no value
\* into the registry.
UnifyUnknownExit(t) ==
    /\ v1[t] = Nil \/ v2[t] = Nil
    /\ ret[t] = CueValueAddr(IF v1[t] = Nil THEN call[t].addr1 ELSE call[t].addr2)
    /\ addr[t] = 0

C2_NewHandlesDistinct ==
    /\ \A h \in BagToSet(returned) : CopiesIn(h, returned) = 1
    /\ \A t, u \in Threads :
        (t # u /\ pc[t] \in {"nv_unlock", "done"} /\ pc[u] \in {"nv_unlock", "done"}
               /\ call[t].op = "new" /\ call[u].op = "new")
          => addr[t] # addr[u]

\* Two cue_value_new calls are in flight at once, one holding its new handle
\* and the other about to take the lock, after a cue_value_free of an issued
\* handle, with one handle returned so far.
C2_Witness ==
    /\ \E t, u \in Threads :
        /\ call[t].op = "new" /\ pc[t] = "nv_unlock"
        /\ call[u].op = "new" /\ pc[u] = "nv_lock"
    /\ freed # {}
    /\ returned # EmptyBag

\* The step in which thread t runs new_value's locked store.
StoreStep(t) == pc[t] = "nv_lock" /\ pc'[t] = "nv_unlock"

\* C3: no step lowers nextID, and the handle an insert hands out is above
\* every handle handed out before, so it was never handed out, freed or not.
C3_CounterMonotonic ==
    [][/\ nextID' >= nextID
       /\ \A t \in Threads :
            StoreStep(t) => /\ addr'[t] = nextID'
                            /\ addr'[t] \notin issued
                            /\ \A h \in issued : h < addr'[t]]_vars

\* An insert has handed out a handle after an earlier handle was freed.
C3_Witness ==
    \E h \in freed : \E g \in issued : g > h

\* The step in which thread t runs remove_value's locked delete.
DeleteStep(t) == pc[t] = "rm_lock" /\ pc'[t] = "rm_unlock"

\* C4: an entry of the registry stays, with its value, through every step
\* that is not the delete of a cue_value_free called on that very handle: no
\* cue_value_new, cue_value_unify, validate, to_json, to_yaml or free of
\* another handle removes or replaces it.  So a handle handed out and not yet
\* passed to cue_value_free is in the registry.
C4_LiveUntilFreed ==
    [][\A h \in DOMAIN values :
          \/ h \in DOMAIN values' /\ values'[h] = values[h]
          \/ \E t \in Threads : DeleteStep(t) /\ call[t].addr1 = h]_vars

\* A handle is live after a later insert and after the free of another handle.
C4_Witness ==
    \E h \in DOMAIN values :
        /\ h < nextID
        /\ freed # {}

\* Thread t takes a step.
Moved(t) == pc'[t] # pc[t]

\* C5: cue_value_new has no failure path.  Whatever the text, its one store
\* adds exactly one entry, under a key that was not in the map, holding what
\* the text compiles to (an error included), and leaves the other entries as
\* they are; no other step of the call changes the map; the entry is there
\* when new_value unlocks and returns; the call returns that key, a handle
\* (at least 2), never a failure marker.  The error of a text that does not
\* compile is met only later: validate of a value with an error gives a
\* diagnostic, to_json and to_yaml give NULL.
C5_NewNeverFails ==
    /\ [](\A t \in Threads :
            /\ (call[t].op = "new" /\ pc[t] = "nv_unlock") =>
                 /\ addr[t] \in DOMAIN values
                 /\ values[addr[t]] = CompileString(call[t].input)
            /\ Done(t, "new") =>
                 /\ ret[t] = CueValueAddr(addr[t])
                 /\ ret[t].h >= 2
                 /\ ret[t].h \in issued
            /\ (pc[t] = "done" /\ v1[t] # Nil /\ HasErr(Deref(v1[t]))) =>
                 CASE call[t].op = "validate" ->
                        ret[t] \notin {NULL, CString(""), CString("unknown handle")}
                   [] call[t].op \in {"to_json", "to_yaml"} -> ret[t] = NULL
                   [] OTHER -> TRUE)
    /\ [][\A t \in Threads :
            (call[t].op = "new" /\ Moved(t)) =>
               IF StoreStep(t)
               THEN /\ addr'[t] \notin DOMAIN values
                    /\ DOMAIN values' = DOMAIN values \cup {addr'[t]}
                    /\ values'[addr'[t]] = CompileString(call[t].input)
                    /\ \A h \in DOMAIN values : values'[h] = values[h]
               ELSE values' = values /\ nextID' = nextID]_vars

\* cue_value_new of the malformed text has returned a handle, which is live
\* and holds a value with an error.
C5_Witness ==
    \E t \in Threads :
        /\ Done(t, "new")
        /\ call[t].input = "age: "
        /\ ret[t].h \in DOMAIN values
        /\ HasErr(values[ret[t].h])

\* The arguments an operation looks up: both for unify, the first otherwise.
UsedArgs(t) == IF call[t].op = "unify" THEN {1, 2} ELSE {1}

\* C6 (as claimed): a cue_value_unify that found one of its handles unknown
\* returns a distinguished failure result, one that is no handle value at
\* all (the counter hands out 2 and above), and has inserted nothing.
C6_UnifyUnknownIsDistinguished ==
    \A t \in Threads :
        (Done(t, "unify") /\ (v1[t] = Nil \/ v2[t] = Nil)) =>
            /\ ret[t].h < NextHandle(1)
            /\ addr[t] = 0

\* C7: a cue_value_unify whose two lookups found values stores once, under a
\* key that is not in the map and is neither argument, the unification of the
\* two values it read; that store and every other step of the call leave all
\* entries that were there as they were; the call returns the new key.  An
\* argument that is still live when the call returns holds the value read.
C7_UnifyFreshLeavesInputs ==
    /\ [](\A t \in Threads :
            (Done(t, "unify") /\ v1[t] # Nil /\ v2[t] # Nil) =>
               /\ ret[t] = CueValueAddr(addr[t])
               /\ ret[t].h \notin {call[t].addr1, call[t].addr2}
               /\ \A i \in {1, 2} :
                    ArgOf(t, i) \in DOMAIN values =>
                        values[ArgOf(t, i)] = Deref(LocalOf(t, i)))
    /\ [][\A t \in Threads :
            (call[t].op = "unify" /\ Moved(t)) =>
               IF StoreStep(t)
               THEN /\ v1[t] # Nil /\ v2[t] # Nil
                    /\ addr'[t] \notin DOMAIN values \cup {call[t].addr1, call[t].addr2}
                    /\ DOMAIN values' = DOMAIN values \cup {addr'[t]}
                    /\ values'[addr'[t]] = Unify(Deref(v1[t]), Deref(v2[t]))
                    /\ \A h \in DOMAIN values : values'[h] = values[h]
               ELSE values' = values /\ nextID' = nextID]_vars

\* A unify of two different live handles has returned: both are still live
\* with the values read, and the result is a third live handle whose value
\* differs from the first argument's.
C7_Witness ==
    \E t \in Threads :
        /\ Done(t, "unify")
        /\ v1[t] # Nil /\ v2[t] # Nil
        /\ call[t].addr1 # call[t].addr2
        /\ {call[t].addr1, call[t].addr2, ret[t].h} \subseteq DOMAIN values
        /\ values[ret[t].h] = Unify(values[call[t].addr1], values[call[t].addr2])
        /\ values[ret[t].h] # values[call[t].addr1]

\* C8: the delete of a cue_value_free on a handle that is not in the map
\* (never issued, or freed before) leaves the map as it is; no step of a
\* cue_value_free touches the counter or reports anything; a delete takes
\* away the entry of its handle at most.  Deleting a handle a second time
\* changes nothing: delete is idempotent on every map the registry reaches.
C8_FreeUnknownIsNoop ==
    /\ [](\A h \in Handles :
            /\ h \notin DOMAIN values => MapDelete(values, h) = values
            /\ MapDelete(MapDelete(values, h), h) = MapDelete(values, h))
    /\ [][\A t \in Threads :
            (call[t].op = "free" /\ Moved(t)) =>
               /\ nextID' = nextID
               /\ ret'[t] = NoRet
               /\ IF DeleteStep(t)
                  THEN /\ call[t].addr1 \notin DOMAIN values => values' = values
                       /\ DOMAIN values' = DOMAIN values \ {call[t].addr1}
                       /\ \A h \in DOMAIN values' : values'[h] = values[h]
                  ELSE values' = values]_vars

\* A second cue_value_free of a handle already freed has run its delete, with
\* other entries in the map.
C8_Witness ==
    \E t \in Threads :
        /\ call[t].op = "free"
        /\ pc[t] = "rm_unlock"
        /\ call[t].addr1 \in freed
        /\ DOMAIN values # {}

FullJSON(v) ==
    CASE v = {30} -> "{\"age\":30}"
      [] v = {31} -> "{\"age\":31}"
FullYAML(v) ==
    CASE v = {30} -> "age: 30\n"
      [] v = {31} -> "age: 31\n"

\* C10: cue_value_to_json and cue_value_to_yaml return NULL exactly when the
\* lookup gave nil or the encoder reported an error, and otherwise the whole
\* encoding of the value, never a part of one; no step of either changes the
\* map or the counter.
C10_EncodeAllOrNothing ==
    /\ [](\A t \in Threads :
            (pc[t] = "done" /\ call[t].op \in {"to_json", "to_yaml"}) =>
               LET json == call[t].op = "to_json"
                   bad  == \/ v1[t] = Nil
                           \/ IF json THEN MarshalJSON(Deref(v1[t])).err
                                      ELSE YamlEncode(Deref(v1[t])).err
               IN  /\ ret[t] = NULL <=> bad
                   /\ ~bad => /\ IsConcrete(Deref(v1[t]))
                              /\ ret[t] = CString(IF json THEN FullJSON(Deref(v1[t]))
                                                          ELSE FullYAML(Deref(v1[t]))))
    /\ [][\A t \in Threads :
            (call[t].op \in {"to_json", "to_yaml"} /\ Moved(t)) =>
               values' = values /\ nextID' = nextID]_vars

\* A to_yaml of a live handle whose value does not encode has returned NULL.
C10_Witness ==
    \E t \in Threads :
        /\ Done(t, "to_yaml")
        /\ v1[t] # Nil
        /\ call[t].addr1 \in DOMAIN values
        /\ ret[t] = NULL

\* The step in which thread t runs get_value's locked read of argument i.
LookupStep(t, i) == pc[t] = GetPc(i, "lock") /\ pc'[t] = GetPc(i, "unlock")

\* C11: the lookup of cue_value_validate copies the value stored under the
\* handle, or gives nil when the handle is no key.  On nil the call returns
\* the text "unknown handle".  On a value it returns the empty text exactly
\* when the value is concrete and carries no error; for a value that is open
\* (no error, not concrete) and for a value with an error it returns a
\* diagnostic: a text that is neither empty nor "unknown handle".
C11_ValidateConcreteness ==
    /\ [](\A t \in Threads :
            Done(t, "validate") =>
               IF v1[t] = Nil
               THEN ret[t] = CString("unknown handle")
               ELSE LET v == Deref(v1[t])
                        good == IsConcrete(v) /\ ~HasErr(v)
                    IN  /\ ret[t] = CString("") <=> good
                        /\ ~good => ret[t] \notin {NULL, CString(""),
                                                   CString("unknown handle")})
    /\ [][\A t \in Threads :
            (call[t].op = "validate" /\ LookupStep(t, 1)) =>
               v1'[t] = IF call[t].addr1 \in DOMAIN values
                        THEN Ref(values[call[t].addr1]) ELSE Nil]_vars

\* A validate of a handle that is live and holds an open value, with no
\* error, has returned a diagnostic.
C11_Witness ==
    \E t \in Threads :
        /\ Done(t, "validate")
        /\ call[t].addr1 \in DOMAIN values
        /\ v1[t] = Ref(values[call[t].addr1])
        /\ ~HasErr(Deref(v1[t])) /\ ~IsConcrete(Deref(v1[t]))
        /\ ret[t] = CString("incomplete value")

\* Where a thread is when it is about to call, or is inside, the CUE engine:
\* CompileString, Unify, Validate, MarshalJSON, yaml.Encode.
EnginePcs == {"new_compile", "uni_unify", "val_validate", "json_marshal", "yaml_encode"}
\* Where a thread is between the locked map access of new_value, get_value or
\* remove_value and its Unlock.
LockedPcs == {"nv_unlock", "g1_unlock", "g2_unlock", "rm_unlock"}

\* C12: the lock is held only inside new_value, get_value and remove_value,
\* between the one map access and the Unlock.  A thread that holds the lock is
\* at none of the engine calls (compile, unify, validate, JSON or YAML
\* encoding).  The step that takes the lock makes the one map read, write or
\* delete, and the next step of that thread releases the lock without
\* touching the map or the counter again.
C12_LockOnlyAroundMapAccess ==
    /\ [](/\ mu # 0 => pc[mu] \in LockedPcs
          /\ \A t \in Threads : pc[t] \in EnginePcs => mu # t)
    /\ [][\A t \in Threads :
            /\ (mu # t /\ mu' = t) =>
                 \/ StoreStep(t)
                 \/ DeleteStep(t)
                 \/ \E i \in {1, 2} : LookupStep(t, i)
            /\ (mu = t /\ Moved(t)) =>
                 /\ mu' = 0
                 /\ values' = values
                 /\ nextID' = nextID]_vars

\* One thread is at the engine's Unify, having finished both lookups, while
\* the other thread holds the lock.
C12_Witness ==
    \E t, u \in Threads :
        /\ pc[t] = "uni_unify"
        /\ mu = u
        /\ u # t

\* The registry as a sequential object: what an insert, a lookup and a remove
\* do to (values, nextID) when nothing else runs, and what they give back.
SeqInsert(m, n, v) ==
    [values |-> [h \in DOMAIN m \cup {n + 1} |-> IF h = n + 1 THEN v ELSE m[h]],
     nextID |-> n + 1,
     result |-> n + 1]
SeqLookup(m, n, k) ==
    [values |-> m, nextID |-> n,
     result |-> IF k \in DOMAIN m THEN Ref(m[k]) ELSE Nil]
SeqRemove(m, n, k) ==
    [values |-> [h \in {g \in DOMAIN m : g # k} |-> m[h]], nextID |-> n,
     result |-> NoRet]

\* The registry of the next state is the one the sequential operation gives.
BecomesAs(r) == values' = r.values /\ nextID' = r.nextID

\* C13: at most one thread is inside a critical section, and it is the holder
\* of the lock.  Each insert, lookup and remove takes effect in one step
\* inside its call (between its start and its return), in which the registry
\* and the result are those of the sequential operation on the registry as it
\* is then; no other step changes the registry; the result taken in that step
\* is a local of the thread that no other thread's step changes, and it is
\* what the registry operation returns.  So every run equals the sequential
\* run of its registry operations in the order of these steps, an order that
\* respects the real-time order of the calls.
C13_MutexAndLinearizable ==
    /\ [](/\ Cardinality({t \in Threads : pc[t] \in LockedPcs}) <= 1
          /\ \A t \in Threads : pc[t] \in LockedPcs => mu = t)
    /\ [][/\ \A t \in Threads :
               /\ StoreStep(t) =>
                    LET r == SeqInsert(values, nextID, new_v[t])
                    IN  BecomesAs(r) /\ addr'[t] = r.result
               /\ \A i \in {1, 2} :
                    LookupStep(t, i) =>
                       LET r == SeqLookup(values, nextID, ArgOf(t, i))
                       IN  /\ BecomesAs(r)
                           /\ (IF i = 1 THEN v1'[t] ELSE v2'[t]) = r.result
               /\ DeleteStep(t) =>
                    BecomesAs(SeqRemove(values, nextID, call[t].addr1))
               /\ (pc[t] = "nv_unlock" /\ Moved(t)) => ret'[t] = CueValueAddr(addr[t])
               /\ ~Moved(t) =>
                    /\ addr'[t] = addr[t]
                    /\ v1'[t] = v1[t]
                    /\ v2'[t] = v2[t]
                    /\ ret'[t] = ret[t]
          /\ (\A t \in Threads :
                 ~StoreStep(t) /\ ~DeleteStep(t)
                 /\ \A i \in {1, 2} : ~LookupStep(t, i))
             => values' = values /\ nextID' = nextID]_vars

\* One thread is inside get_value's critical section with the value of a live
\* handle, while the other thread waits for the lock to remove that handle.
C13_Witness ==
    \E t, u \in Threads :
        /\ pc[t] = "g1_unlock"
        /\ mu = t
        /\ v1[t] # Nil
        /\ pc[u] = "rm_lock"
        /\ call[u].addr1 = call[t].addr1

\* Argument i of thread t's cue_value_unify is unknown and the other is
\* known: argument i was never handed out, and the other argument was found
\* by its lookup (the first) or is in the map (the second, when the call
\* left before looking it up).
OneUnknown(t, i) ==
    /\ ArgOf(t, i) \notin issued
    /\ IF i = 2 THEN v1[t] # Nil ELSE ArgOf(t, 2) \in DOMAIN values

\* The argument that is not argument i.
OtherArg(t, i) == ArgOf(t, 3 - i)

\* C14 (as claimed): a cue_value_unify with exactly one unknown input handle
\* returns the other input handle, the known one.
C14_UnifyReturnsKnownInput ==
    \A t \in Threads : \A i \in {1, 2} :
        (Done(t, "unify") /\ OneUnknown(t, i)) => ret[t] = CueValueAddr(OtherArg(t, i))

\* C14 (amended): a cue_value_unify with exactly one unknown input handle
\* returns that unknown handle itself, not the known one, and inserts
\* nothing.  In terms of its lookups: when the first lookup gives nil it
\* returns addr1 without looking addr2 up; when the first finds a value and
\* the second gives nil it returns addr2.
C14_UnifyReturnsUnknownInput ==
    \A t \in Threads :
        Done(t, "unify") =>
            /\ \A i \in {1, 2} :
                 OneUnknown(t, i) => /\ ret[t] = CueValueAddr(ArgOf(t, i))
                                     /\ ret[t] # CueValueAddr(OtherArg(t, i))
                                     /\ addr[t] = 0
            /\ v1[t] = Nil => /\ ret[t] = CueValueAddr(call[t].addr1)
                              /\ v2[t] = Nil
                              /\ addr[t] = 0
            /\ (v1[t] # Nil /\ v2[t] = Nil) => /\ ret[t] = CueValueAddr(call[t].addr2)
                                               /\ addr[t] = 0

\* A unify of a live handle with an integer that was never handed out (and
\* is not 0) has returned that integer; the live handle is still live.
C14_Witness ==
    \E t \in Threads :
        /\ Done(t, "unify")
        /\ v1[t] # Nil
        /\ call[t].addr1 \in DOMAIN values
        /\ call[t].addr2 \notin issued
        /\ call[t].addr2 # 0
        /\ ret[t] = CueValueAddr(call[t].addr2)

\* C15 (as claimed): in the address variant the store of an insert never
\* lands on a key that is in the map, so it replaces the value of no live
\* handle and the handle returned is that of no other live value.
C15_AddrInsertNeverOnLiveKey ==
    [][\A t \in Threads :
          StoreStep(t) => /\ addr[t] \notin DOMAIN values
                          /\ \A h \in DOMAIN values :
                               h \in DOMAIN values' /\ values'[h] = values[h]]_vars

\* What validate, to_json and to_yaml give for a handle that holds value v.
PresentResult(o, v) ==
    CASE o = "validate" -> CString(Validate(v))
      [] o = "to_json"  -> EncodeResult(MarshalJSON(v))
      [] o = "to_yaml"  -> EncodeResult(YamlEncode(v))

\* C16: an operation on H that runs while another thread frees H ends in one
\* of two ways.  Its lookup, one step under the lock, either copies the value
\* H holds or finds H gone; no later step of any thread changes that copy.
\* With a copy, validate, to_json and to_yaml return what they return for a
\* handle holding that value, and unify stores the unification of its two
\* copies under a new handle, even when H has been removed by then; without,
\* each returns its unknown-handle result (C14 for unify).  When
\* cue_value_free(H) returns H is not in the map, and it never is again.
C16_FreeRaceTwoOutcomes ==
    /\ [](/\ freed \cap DOMAIN values = {}
          /\ \A t \in Threads :
               /\ (pc[t] = "done" /\ call[t].op \in {"validate", "to_json", "to_yaml"}) =>
                    ret[t] = IF v1[t] = Nil
                             THEN UnknownHandleResult(call[t].op, call[t].addr1)
                             ELSE PresentResult(call[t].op, Deref(v1[t]))
               /\ Done(t, "unify") =>
                    IF v1[t] # Nil /\ v2[t] # Nil
                    THEN /\ ret[t] = CueValueAddr(addr[t])
                         /\ addr[t] \in issued
                         /\ new_v[t] = Unify(Deref(v1[t]), Deref(v2[t]))
                    ELSE UnifyUnknownExit(t))
    /\ [][\A t \in Threads :
            /\ \A i \in {1, 2} :
                 IF LookupStep(t, i)
                 THEN (IF i = 1 THEN v1'[t] ELSE v2'[t]) =
                         IF ArgOf(t, i) \in DOMAIN values
                         THEN Ref(values[ArgOf(t, i)]) ELSE Nil
                 ELSE pc'[t] # "idle" =>
                         (IF i = 1 THEN v1'[t] = v1[t] ELSE v2'[t] = v2[t])
            /\ (call[t].op = "free" /\ pc[t] = "rm_unlock" /\ Moved(t)) =>
                 call[t].addr1 \notin DOMAIN values']_vars

\* A validate of H has returned the diagnostic of the open value it copied,
\* although the cue_value_free(H) of the other thread, which returned after
\* the validate was called, has removed H.
C16_Witness ==
    \E t \in Threads :
        /\ Done(t, "validate")
        /\ call[t].addr1 \in freed
        /\ call[t].addr1 \notin DOMAIN values
        /\ 1 \notin stale[t]
        /\ v1[t] # Nil
        /\ ret[t] = CString("incomplete value")

\* C17: the delete of cue_value_free(H) leaves the counter, every entry other
\* than H's, and the locals of the other threads as they are, and adds no
\* entry; the other steps of cue_value_free change neither map nor counter.
\* So a cue_value_unify that has copied H's value goes on with its copy when
\* H is freed: at the return of its new_value the result is in the map under
\* the new handle, holding the unification of the two copies, whether or not
\* the inputs are still there.
C17_FreeRemovesOnlyH ==
    /\ [](\A t \in Threads :
            (call[t].op = "unify" /\ pc[t] = "nv_unlock") =>
               /\ addr[t] \in DOMAIN values
               /\ addr[t] \notin {call[t].addr1, call[t].addr2}
               /\ values[addr[t]] = Unify(Deref(v1[t]), Deref(v2[t])))
    /\ [][\A t \in Threads :
            (call[t].op = "free" /\ Moved(t)) =>
               /\ nextID' = nextID
               /\ DOMAIN values' \subseteq DOMAIN values
               /\ \A h \in DOMAIN values \ {call[t].addr1} :
                    h \in DOMAIN values' /\ values'[h] = values[h]
               /\ ~DeleteStep(t) => values' = values
               /\ \A u \in Threads \ {t} :
                    /\ v1'[u] = v1[u] /\ v2'[u] = v2[u]
                    /\ new_v'[u] = new_v[u] /\ addr'[u] = addr[u]
                    /\ pc'[u] = pc[u]]_vars

\* A unify has just stored its result, under a handle that is now live,
\* after a cue_value_free of its first input returned: that free was called
\* on a live handle while the unify was running, after the unify had copied
\* the input's value.
C17_Witness ==
    \E t \in Threads :
        /\ call[t].op = "unify"
        /\ pc[t] = "nv_unlock"
        /\ v1[t] # Nil
        /\ call[t].addr1 \in freed
        /\ 1 \notin stale[t]
        /\ call[t].addr1 \notin DOMAIN values
        /\ addr[t] \in DOMAIN values

\* Where a thread is when it is about to take the lock.
LockPcs == {"nv_lock", "g1_lock", "g2_lock", "rm_lock"}

\* C18: under fair scheduling every call of an exported operation returns.
\* The lock is free exactly when no thread is between a map access and its
\* Unlock, so a thread that has returned, along whatever path, does not hold
\* it; a thread about to take the lock does not hold it; and no state is a
\* deadlock: a thread inside a call can take a step, or waits for the lock
\* while the holder of the lock can take a step.
C18_TerminatesAndReleases ==
    /\ \A t \in Threads : (pc[t] # "idle") ~> (pc[t] = "done")
    /\ [](/\ mu = 0 <=> \A t \in Threads : pc[t] \notin LockedPcs
          /\ \A t \in Threads :
               /\ pc[t] \in LockPcs \cup {"done", "idle"} => mu # t
               /\ pc[t] # "idle" =>
                    IF pc[t] \in LockPcs
                    THEN IF mu = 0 THEN ENABLED LockStep(t) ELSE ENABLED Step(mu)
                    ELSE ENABLED Step(t))

\* A to_json has returned NULL because the value it found does not encode,
\* the lock is free, and the other thread is about to take the lock.
C18_Witness ==
    \E t, u \in Threads :
        /\ Done(t, "to_json")
        /\ v1[t] # Nil
        /\ ret[t] = NULL
        /\ mu = 0
        /\ pc[u] \in LockPcs

\* The operations that only read the registry.
ReadOps == {"validate", "to_json", "to_yaml"}

\* C19: no step of cue_value_validate, cue_value_to_json or cue_value_to_yaml,
\* from the call to the return to the caller, changes the map (its keys and
\* the value under each key) or the counter, whether the handle is known or
\* not and whether the operation succeeds or fails.
C19_ReadOpsChangeNothing ==
    [][\A t \in Threads :
          (Moved(t) /\ (call[t].op \in ReadOps \/ call'[t].op \in ReadOps)) =>
             /\ DOMAIN values' = DOMAIN values
             /\ \A h \in DOMAIN values : values'[h] = values[h]
             /\ nextID' = nextID
             /\ issued' = issued]_vars

\* A to_json of a live handle has returned the encoding of its value, and
\* the handle is still live with that value.
C19_Witness ==
    \E t \in Threads :
        /\ Done(t, "to_json")
        /\ ret[t] # NULL
        /\ call[t].addr1 \in DOMAIN values
        /\ Ref(values[call[t].addr1]) = v1[t]

\* C20: the counter is at least 1, its first value; every key of the map is
\* at least 2 and at most the counter; so the key the next new_value stores
\* under, the counter plus one, is not in the map.
C20_KeysWithinCounter ==
    /\ nextID >= 1
    /\ \A k \in DOMAIN values : 2 <= k /\ k <= nextID
    /\ NextHandle(nextID) \notin DOMAIN values
    /\ \A k \in issued : 2 <= k /\ k <= nextID

\* The first handle has been freed, the map holds the latest handle, which is
\* the counter, and a new_value is about to store.
C20_Witness ==
    /\ 2 \in freed
    /\ nextID >= 3
    /\ nextID \in DOMAIN values
    /\ \E t \in Threads : pc[t] = "nv_lock"

=============================================================================
